---- MODULE Spec2Model ----
(***************************************************************************)
(* Model of the concurrent file system walker of bbengfort/urfs            *)
(* (urfs.go, count.go): one producer goroutine that runs filepath.Walk     *)
(* with fs.filterPaths as callback, fs.Workers worker goroutines that      *)
(* apply the WalkFunc, the goroutine that closes the results channel and   *)
(* the caller's goroutine that counts the results, all under one           *)
(* errgroup.Group with its derived context.                                *)
(***************************************************************************)
EXTENDS Integers, Sequences, FiniteSets, TLC

\* ------------------------------------------------------------------------
\* Bounds of the model
\* ------------------------------------------------------------------------
MaxEntries == 3      \* longest sequence of entries filepath.Walk visits
MaxSmallEntries == 2 \* the same in the specifications with more scheduling
MaxWorkers == 2      \* largest fs.Workers the caller configures
DefaultBuffer == 1   \* capacity of fs.paths and fs.results (1000 in urfs.go)
MaxDepth == 2        \* longest path handed to Mkdir and PathExists

\* ------------------------------------------------------------------------
\* Errors
\* ------------------------------------------------------------------------
NoErr == "nil"
ErrTransform == "ErrTransform"          \* error returned by the WalkFunc
ErrList == "ErrList"                    \* error handed to the walk callback
ErrBadPattern == "ErrBadPattern"        \* filepath.ErrBadPattern
Canceled == "Canceled"                  \* context.Canceled
DeadlineExceeded == "DeadlineExceeded"  \* context.DeadlineExceeded
CtxErrors == {Canceled, DeadlineExceeded}

\* ------------------------------------------------------------------------
\* Entries of the tree and the caller's configuration
\* ------------------------------------------------------------------------
\* A name is a sequence of characters; a pattern likewise.
NameA == <<"a">>
NameB == <<"b">>
NameDot == <<".", "a">>
NameTilde == <<"~", "a">>
PatAll == <<"*">>
PatA == <<"a", "*">>
PatBad == <<"[">>

\* One call of the walk callback: err is the error filepath.Walk hands in,
\* mode the file mode, name the base name, out what the WalkFunc does with
\* this path: "res" a non-empty string, "empty" the empty string, "err" an
\* error.  under tells where the entry lies: "root" for anywhere that is not
\* below a hidden directory, "hidden" for below a directory (below the
\* root) whose name begins with '.' or '~'.
Entry(err, mode, name, out) ==
    [err |-> err, mode |-> mode, name |-> name, out |-> out, under |-> "root"]

\* the same entry, found by filepath.Walk below a hidden directory
Below(e) == [e EXCEPT !.under = "hidden"]

EntryKinds ==
    { Entry(FALSE, "file", NameA, "res"),
      Entry(FALSE, "file", NameA, "empty"),
      Entry(FALSE, "file", NameA, "err"),
      Entry(FALSE, "file", NameDot, "res"),
      Entry(TRUE, "dir", NameA, "res") }

TreesUpTo(max) == UNION { [1..n -> EntryKinds] : n \in 1..max }
Trees == TreesUpTo(MaxEntries)
SmallTrees == TreesUpTo(MaxSmallEntries)

Configs ==
    { [Workers |-> w, SkipHidden |-> h, SkipDirs |-> TRUE, Match |-> PatAll] :
        w \in 0..MaxWorkers, h \in {TRUE} }

\* Entries and configurations that reach every branch of fs.filterPaths:
\* regular files with plain and hidden names, a directory, an entry that
\* is neither (a symbolic link, a device), and the three kinds of pattern.
FilterKinds ==
    { Entry(FALSE, "file", NameA, "res"),
      Entry(FALSE, "file", NameB, "res"),
      Entry(FALSE, "file", NameDot, "res"),
      Entry(FALSE, "file", NameTilde, "res"),
      Entry(FALSE, "dir", NameA, "res"),
      Entry(FALSE, "dir", NameDot, "res"),
      Below(Entry(FALSE, "file", NameA, "res")),
      Entry(FALSE, "other", NameA, "res"),
      Entry(FALSE, "file", NameA, "err"),
      Entry(TRUE, "dir", NameA, "res") }

\* filepath.Walk calls the callback on a directory before it calls it on
\* what the directory holds
FilterTrees ==
    { t \in UNION { [1..n -> FilterKinds] : n \in 1..MaxSmallEntries } :
        \A i \in 1..Len(t) : t[i].under = "hidden" =>
            \E j \in 1..(i - 1) :
                t[j].mode = "dir" /\ t[j].name = NameDot }

FilterConfigs ==
    { [Workers |-> 1, SkipHidden |-> h, SkipDirs |-> d, Match |-> m] :
        h \in BOOLEAN, d \in BOOLEAN, m \in {PatAll, PatA, PatBad} }

VARIABLES
    tree,        \* the entries filepath.Walk visits under fs.root, in order
    Workers, SkipHidden, SkipDirs, Match,   \* exported fields of FSWalker
    paths,       \* fs.paths: [buf, closed]
    nPaths,      \* fs.nPaths
    results,     \* fs.results: [buf, closed]
    nResults,    \* fs.nResults
    group,       \* fs.group: [err, wg]
    ctx,         \* fs.ctx: [deadline, orig, cause]
    started,     \* fs.started: "zero" or "set"
    duration,    \* fs.duration: "zero" or "set"
    callerCtx,   \* the context the caller made: [deadline, cause]
    timeUp,      \* the caller's deadline has passed
    phase,       \* "idle", "running", "returned"
    walkErr,     \* what the last Walk returned
    ppc, pos,    \* producer (fs.walk): position in the code and in tree
    wpc, wcur,   \* workers: position in the code, path received
    wres,        \* workers: the string r the WalkFunc returned (0 is "")
    cpc,         \* the goroutine of Walk that waits and closes fs.results
    calls,       \* history: number of WalkFunc invocations per entry
    active,      \* history: WalkFunc invocations in progress per worker
    firstErr,    \* history: first non-nil error a task of the group returned
    early,       \* history: the context was cancelled from outside while
                 \* the producer was still traversing
    observed,    \* history: a select took its <-fs.ctx.Done() case
    prev,        \* history: the counters of the last walk that returned nil,
                 \* as they were when Reset zeroed them
    disk,        \* the file system Mkdir and PathExists work on
    fsop,        \* the last call of Mkdir or PathExists and what it returned
    sent,        \* history: number of results sent on fs.results
    walks,       \* history: calls of Walk since Init or the last Reset
    cnt          \* fs.Count: its arguments, its loop and the DirSize values

cfgvars == <<Workers, SkipHidden, SkipDirs, Match>>
chanvars == <<paths, results>>
countvars == <<nPaths, nResults>>
timevars == <<started, duration>>
envvars == <<callerCtx, timeUp>>
prodvars == <<ppc, pos>>
workvars == <<wpc, wcur, wres>>
histvars == <<calls, active, firstErr, early, observed>>
sidevars == <<prev, disk, fsop, sent, walks, cnt>>
walkvars == <<chanvars, countvars, group, ctx, timevars, envvars, phase,
              walkErr, prodvars, workvars, cpc, histvars>>
vars == <<tree, cfgvars, walkvars, sidevars>>

WorkerIds == 1..MaxWorkers

\* ------------------------------------------------------------------------
\* Pure helpers
\* ------------------------------------------------------------------------
\* strings.HasPrefix(name, c) for a one character prefix
HasPrefix(name, c) == Len(name) >= 1 /\ name[1] = c

\* filepath.Match for patterns made of literals, '*' and '[': a '[' that
\* is reached with no closing bracket is ErrBadPattern.
RECURSIVE GlobMatch(_, _)
GlobMatch(pat, name) ==
    IF pat = <<>> THEN (IF name = <<>> THEN "match" ELSE "nomatch")
    ELSE IF pat[1] = "[" THEN "bad"
    ELSE IF pat[1] = "*" THEN
        LET rest == GlobMatch(Tail(pat), name) IN
        IF rest # "nomatch" THEN rest
        ELSE IF name = <<>> THEN "nomatch"
        ELSE GlobMatch(pat, Tail(name))
    ELSE IF name # <<>> /\ name[1] = pat[1] THEN GlobMatch(Tail(pat), Tail(name))
    ELSE "nomatch"

\* a filter for which only a leading '.' makes a file hidden
FilterResultDotOnly(e, skipHidden, skipDirs, match) ==
    IF e.err THEN ErrList
    ELSE IF e.mode # "file" THEN "skip"
    ELSE IF skipHidden /\ HasPrefix(e.name, ".") THEN "skip"
    ELSE LET m == GlobMatch(match, e.name) IN
         IF m = "bad" THEN ErrBadPattern
         ELSE IF m = "nomatch" THEN "skip"
         ELSE "eligible"

\* The decision of fs.filterPaths on one entry, before the counter and the
\* push: an error to return, "skip" (return nil) or "eligible".
FilterResult(e, skipHidden, skipDirs, match) ==
    IF e.err THEN ErrList
    ELSE IF e.mode # "file" THEN "skip"
    ELSE IF skipHidden /\ (HasPrefix(e.name, ".") \/ HasPrefix(e.name, "~"))
        THEN "skip"
    ELSE IF skipDirs /\ e.mode = "dir" THEN "skip"
    ELSE LET m == GlobMatch(match, e.name) IN
         IF m = "bad" THEN ErrBadPattern
         ELSE IF m = "nomatch" THEN "skip"
         ELSE "eligible"

\* a channel without a capacity
HasRoomAlways(buf) == TRUE

\* a channel that takes one item more than its capacity
HasRoomOneMore(buf) == Len(buf) < DefaultBuffer + 1

\* a send on a buffered channel of capacity DefaultBuffer can proceed
HasRoom(buf) == Len(buf) < DefaultBuffer

\* a receive that leaves the received item in the channel
DequeueKeep(buf) == buf

\* what a receive leaves in the buffer of a channel
Dequeue(buf) == Tail(buf)

\* a context whose Done channel is never closed
CtxDoneNever(c) == FALSE

\* <-fs.ctx.Done() is ready; ctx.Err() of fs.ctx
CtxDone(c) == c.cause # "none"
CtxErr(c) == IF c.cause = "deadline" THEN DeadlineExceeded ELSE Canceled

\* the cancel function of the group's context
Cancel(c) == IF c.cause = "none" THEN [c EXCEPT !.cause = "group"] ELSE c

\* errgroup.WithContext(parent): a child context of parent
WithContext(deadline, orig, parentCause) ==
    [deadline |-> deadline, orig |-> orig, cause |-> parentCause]

\* ------------------------------------------------------------------------
\* fsutil.go: the file system under one directory, Mkdir and PathExists
\* ------------------------------------------------------------------------
\* A path is the sequence of its components below a directory that exists;
\* the disk tells of every path whether it is a directory, a regular file
\* or nothing, and only a directory has anything below it.
DirNames == {"a", "b"}
\* the paths the helpers are called with: two directories side by side and
\* one chain of components below each
DiskPaths ==
    { p \in UNION { [1..n -> DirNames] : n \in 1..MaxDepth } :
        \A k \in 2..Len(p) : p[k] = "a" }
Prefixes(p) == { SubSeq(p, 1, k) : k \in 1..Len(p) }
Ancestors(p) == Prefixes(p) \ {p}
Disks ==
    { d \in [DiskPaths -> {"none", "dir", "file"}] :
        \A p \in DiskPaths : \A q \in Ancestors(p) :
            d[p] # "none" => d[q] = "dir" }
EmptyDisk == [p \in DiskPaths |-> "none"]

\* os.Stat(path): the error of the first component that cannot be resolved
Stat(d, p) ==
    IF \E q \in Ancestors(p) : d[q] = "file" THEN "ENOTDIR"
    ELSE IF d[p] = "none" THEN "ENOENT"
    ELSE NoErr

\* os.IsNotExist(err)
IsNotExist(err) == err = "ENOENT"

\* a MkdirAll that makes the last component only
MkdirAllLeaf(d, p) ==
    [disk |-> [d EXCEPT ![p] = "dir"], err |-> NoErr]

\* os.MkdirAll(path, 0755): every missing component becomes a directory,
\* unless a component is a regular file
MkdirAll(d, p) ==
    IF \E q \in Prefixes(p) : d[q] = "file"
        THEN [disk |-> d, err |-> "ENOTDIR"]
    ELSE [disk |-> [q \in DiskPaths |->
                       IF q \in Prefixes(p) THEN "dir" ELSE d[q]],
          err |-> NoErr]

\* PathExists(path)
PathExists(d, p) == IF IsNotExist(Stat(d, p)) THEN FALSE ELSE TRUE

\* Mkdir(path): the disk it leaves and the error it returns
Mkdir(d, p) ==
    IF IsNotExist(Stat(d, p)) THEN MkdirAll(d, p)
    ELSE [disk |-> d, err |-> NoErr]

NoOp == [op |-> "none", path |-> <<>>, before |-> EmptyDisk,
         err |-> NoErr, ret |-> FALSE]

\* ------------------------------------------------------------------------
\* count.go: the arguments of fs.Count and the files it sizes
\* ------------------------------------------------------------------------
ErrStat == "ErrStat"                    \* error of os.Stat in DirSize.Update

\* a regular file of n bytes; out = "err" marks a file whose os.Stat fails
\* when the WalkFunc is called
Sized(n, out) ==
    [err |-> FALSE, mode |-> "file", name |-> NameA, out |-> out,
     under |-> "root", size |-> n]

CountKinds ==
    { Sized(0, "stat"), Sized(1, "stat"), Sized(2, "stat"), Sized(1, "err") }

\* the two paths Count is called with and what lies under each
CountPaths == <<"p", "q">>
CountTrees ==
    { [p |-> t, q |-> <<e>>] :
        t \in UNION { [1..n -> CountKinds] : n \in 1..MaxSmallEntries },
        e \in CountKinds }
CountArgs == { SubSeq(CountPaths, 1, k) : k \in 1..Len(CountPaths) }

\* size := &DirSize{Path: path}
NewDirSize(path) == [Path |-> path, Files |-> 0, Bytes |-> 0]

\* no call of Count
NoCount ==
    [pc |-> "off", args |-> <<>>, trees |-> <<>>, i |-> 0,
     size |-> NewDirSize(""), sizes |-> <<>>, err |-> NoErr]

\* ------------------------------------------------------------------------
\* Initial state: after fs.Init(ctx) and the caller's configuration
\* ------------------------------------------------------------------------
EmptyChan == [buf |-> <<>>, closed |-> FALSE]

InitWalker(trees, configs, deadlines) ==
    /\ tree \in trees
    /\ \E c \in configs :
        /\ Workers = c.Workers
        /\ SkipHidden = c.SkipHidden
        /\ SkipDirs = c.SkipDirs
        /\ Match = c.Match
    /\ callerCtx \in { [deadline |-> d, cause |-> "none"] : d \in deadlines }
    /\ timeUp = FALSE
    /\ paths = EmptyChan
    /\ results = EmptyChan
    /\ nPaths = 0
    /\ nResults = 0
    /\ group = [err |-> NoErr, wg |-> 0]
    /\ ctx = WithContext(callerCtx.deadline, TRUE, "none")
    /\ started = "zero"
    /\ duration = "zero"
    /\ phase = "idle"
    /\ walkErr = NoErr
    /\ ppc = "off"
    /\ pos = 1
    /\ wpc = [w \in WorkerIds |-> "off"]
    /\ wcur = [w \in WorkerIds |-> 0]
    /\ wres = [w \in WorkerIds |-> 0]
    /\ cpc = "off"
    /\ calls = [i \in 1..Len(tree) |-> 0]
    /\ active = [w \in WorkerIds |-> 0]
    /\ firstErr = NoErr
    /\ early = FALSE
    /\ observed = FALSE
    /\ prev = [set |-> FALSE, nPaths |-> 0, nResults |-> 0]
    /\ sent = 0
    /\ walks = 0

InitOver(trees) ==
    /\ InitWalker(trees, Configs, BOOLEAN)
    /\ disk = EmptyDisk
    /\ fsop = NoOp
    /\ cnt = NoCount

Init == InitOver(Trees)
InitSmall == InitOver(SmallTrees)
InitFilter ==
    /\ InitWalker(FilterTrees, FilterConfigs, {TRUE})
    /\ disk = EmptyDisk
    /\ fsop = NoOp
    /\ cnt = NoCount

\* ------------------------------------------------------------------------
\* errgroup.Group
\* ------------------------------------------------------------------------
\* a group that does not keep the context's error
GroupRecordNoCtx(g, err) ==
    IF err # NoErr /\ err \notin CtxErrors /\ g.err = NoErr THEN err ELSE g.err

\* a group that keeps the last error instead of the first
GroupRecordLast(g, err) ==
    IF err # NoErr THEN err ELSE g.err

\* g.errOnce.Do: the first non-nil error of a task is kept
GroupRecord(g, err) ==
    IF err # NoErr /\ g.err = NoErr THEN err ELSE g.err

\* a Wait that returns while tasks are still running
WaitReturnsEarly(g) == TRUE

\* g.wg.Wait() returns: every task of the group has returned
WaitReturns(g) == g.wg = 0

\* a Wait that tells only that the group was cancelled
WaitCanceled(g) == IF g.err = NoErr THEN NoErr ELSE Canceled

\* a Wait that loses the error of the group
WaitNil(g) == NoErr

\* group.Wait() once every task has returned: the error that was kept
Wait(g) == g.err

\* a wrapper that drops the error of the task
TaskReturnDropped(err) ==
    /\ group' = [group EXCEPT !.wg = @ - 1]
    /\ ctx' = ctx
    /\ firstErr' = firstErr

\* The wrapper of group.Go when the task's function returns err: record
\* the first error and cancel the context, then wg.Done().
TaskReturn(err) ==
    /\ group' = [err |-> GroupRecord(group, err), wg |-> group.wg - 1]
    /\ ctx' = IF err # NoErr /\ group.err = NoErr THEN Cancel(ctx) ELSE ctx
    /\ firstErr' = IF err # NoErr /\ firstErr = NoErr THEN err ELSE firstErr

\* ------------------------------------------------------------------------
\* Reset and Walk (caller's goroutine)
\* ------------------------------------------------------------------------
\* a Reset that keeps the context of the previous group
ResetContextKeep(arg) == ctx

\* a Reset that always starts from a plain Background context
ResetContextPlain(arg) ==
    WithContext(FALSE, FALSE, "none")

\* The context Reset derives the group from: the argument, or when it is
\* nil a Background context with the deadline of fs.ctx, if it has one.
ResetContext(arg) ==
    IF arg = "nil"
        THEN WithContext(ctx.deadline, FALSE,
                         IF ctx.deadline /\ timeUp THEN "deadline" ELSE "none")
    ELSE WithContext(callerCtx.deadline, TRUE, callerCtx.cause)

ResetArgs == {"nil", "caller"}

\* what fs.Reset(ctx) assigns; t is the tree the next walk will visit
ResetEngine(arg, t) ==
    /\ paths' = EmptyChan
    /\ results' = EmptyChan
    /\ group' = [err |-> NoErr, wg |-> 0]
    /\ ctx' = ResetContext(arg)
    /\ nPaths' = 0
    /\ nResults' = 0
    /\ started' = "zero"
    /\ duration' = "zero"
    /\ phase' = "idle"
    /\ walkErr' = NoErr
    /\ ppc' = "off"
    /\ pos' = 1
    /\ wpc' = [w \in WorkerIds |-> "off"]
    /\ wcur' = [w \in WorkerIds |-> 0]
    /\ wres' = [w \in WorkerIds |-> 0]
    /\ cpc' = "off"
    /\ calls' = [i \in 1..Len(t) |-> 0]
    /\ active' = [w \in WorkerIds |-> 0]
    /\ firstErr' = NoErr
    /\ early' = FALSE
    /\ observed' = FALSE
    /\ prev' = IF phase = "returned" /\ walkErr = NoErr
               THEN [set |-> TRUE, nPaths |-> nPaths, nResults |-> nResults]
               ELSE prev
    /\ sent' = 0
    /\ walks' = 0

\* fs.Reset(ctx), called when no walk is in flight
Reset(arg) ==
    /\ phase \in {"idle", "returned"}
    /\ ResetEngine(arg, tree)
    /\ UNCHANGED <<tree, cfgvars, disk, fsop, envvars, cnt>>

\* a loop that starts one worker too many (w <= fs.Workers)
PoolOneMore(n) == 1..(n + 1)

\* the workers Walk starts: for w := 0; w < fs.Workers; w++
Pool(n) == 1..n

\* fs.Walk up to the start of the collecting loop: the producer, the
\* workers and the closing goroutine are started.  The caller walks an
\* engine that was initialised or reset ("once walked, the FSWalker must
\* be reinitialized to walk again").
StartWalk ==
    /\ started' = "set"
    /\ ppc' = "walk"
    /\ pos' = 1
    /\ wpc' = [w \in WorkerIds |-> IF w \in Pool(Workers) THEN "recv" ELSE "off"]
    /\ group' = [group EXCEPT !.wg = 1 + Cardinality(Pool(Workers) \cap WorkerIds)]
    /\ cpc' = "wait"
    /\ phase' = "running"
    /\ walks' = walks + 1
    /\ UNCHANGED <<prev, disk, fsop, sent, cnt>>
    /\ UNCHANGED <<tree, cfgvars, chanvars, countvars, ctx, duration, envvars,
                   walkErr, wcur, wres, histvars>>

Walk ==
    /\ phase = "idle"
    /\ StartWalk

\* fs.Walk called again on an engine whose walk has returned, with no
\* Reset in between: the same code runs on the channels, the group and the
\* counters the first walk left
WalkAgain ==
    /\ phase = "returned"
    /\ StartWalk

\* an increment of fs.nResults that is lost
AddResultLost(n) == n

\* fs.nResults++
AddResult(n) == n + 1

\* for _ = range fs.results { fs.nResults++ }
Collect ==
    /\ phase = "running"
    /\ results.buf # <<>>
    /\ results' = [results EXCEPT !.buf = Dequeue(@)]
    /\ nResults' = AddResult(nResults)
    /\ UNCHANGED sidevars
    /\ UNCHANGED <<tree, cfgvars, paths, nPaths, group, ctx, timevars, envvars,
                   phase, walkErr, prodvars, workvars, cpc, histvars>>

\* the loop over fs.results ends, return fs.group.Wait(); the deferred
\* function records the duration
WalkReturn ==
    /\ phase = "running"
    /\ results.buf = <<>> /\ results.closed
    /\ WaitReturns(group)
    /\ ctx' = Cancel(ctx)
    /\ walkErr' = Wait(group)
    /\ duration' = "set"
    /\ phase' = "returned"
    /\ UNCHANGED sidevars
    /\ UNCHANGED <<tree, cfgvars, chanvars, countvars, group, started, envvars,
                   prodvars, workvars, cpc, histvars>>

\* go func() { fs.group.Wait(); close(fs.results) }()
Closer ==
    /\ cpc = "wait"
    /\ WaitReturns(group)
    /\ ctx' = Cancel(ctx)
    /\ IF results.closed
       THEN cpc' = "panic" /\ UNCHANGED results  \* close of closed channel
       ELSE /\ results' = [results EXCEPT !.closed = TRUE]
            /\ cpc' = "done"
    /\ UNCHANGED sidevars
    /\ UNCHANGED <<tree, cfgvars, paths, countvars, group, timevars, envvars,
                   phase, walkErr, prodvars, workvars, histvars>>

\* ------------------------------------------------------------------------
\* Producer: fs.walk with fs.filterPaths
\* ------------------------------------------------------------------------
\* a producer that counts every discovered path twice
AddPathTwice(n) == n + 2

\* a producer that does not count the paths it discovers
AddPathNone(n) == n

\* atomic.AddUint64(&fs.nPaths, 1)
AddPath(n) == n + 1

\* a producer without the deferred close(fs.paths)
ProducerReturnNoClose(err) ==
    /\ paths' = paths
    /\ ppc' = "done"
    /\ TaskReturn(err)

\* a producer that closes fs.paths at the end of a traversal that did not
\* fail, instead of in a deferred call
ProducerReturnCloseOnNil(err) ==
    /\ paths' = [paths EXCEPT !.closed = (err = NoErr)]
    /\ ppc' = "done"
    /\ TaskReturn(err)

\* a close that does nothing on a channel that is closed already
ProducerReturnQuiet(err) ==
    /\ paths' = [paths EXCEPT !.closed = TRUE]
    /\ ppc' = "done"
    /\ TaskReturn(err)

\* fs.walk returns err: the deferred close(fs.paths), then the group.  The
\* close of a channel that is closed already panics: the goroutine never
\* hands its error to the group and the program ends.
ProducerReturn(err) ==
    IF paths.closed
    THEN /\ ppc' = "panic"
         /\ UNCHANGED <<paths, group, ctx, firstErr>>
    ELSE /\ paths' = [paths EXCEPT !.closed = TRUE]
         /\ ppc' = "done"
         /\ TaskReturn(err)

\* one call of fs.filterPaths up to the select
filterPaths ==
    /\ ppc = "walk"
    /\ pos <= Len(tree)
    /\ LET r == FilterResult(tree[pos], SkipHidden, SkipDirs, Match) IN
       CASE r = "skip" ->
              /\ pos' = pos + 1
              /\ UNCHANGED <<ppc, paths, nPaths, group, ctx, firstErr>>
         [] r = "eligible" ->
              /\ nPaths' = AddPath(nPaths)
              /\ ppc' = "push"
              /\ UNCHANGED <<pos, paths, group, ctx, firstErr>>
         [] OTHER ->
              /\ ProducerReturn(r)
              /\ UNCHANGED <<pos, nPaths>>
    /\ UNCHANGED sidevars
    /\ UNCHANGED <<tree, cfgvars, results, nResults, timevars, envvars, phase,
                   walkErr, workvars, cpc, calls, active, early, observed>>

\* case fs.paths <- path
Push ==
    /\ ppc = "push"
    /\ ~paths.closed
    /\ HasRoom(paths.buf)
    /\ paths' = [paths EXCEPT !.buf = Append(@, pos)]
    /\ pos' = pos + 1
    /\ ppc' = "walk"
    /\ UNCHANGED sidevars
    /\ UNCHANGED <<tree, cfgvars, results, countvars, group, ctx, timevars,
                   envvars, phase, walkErr, workvars, cpc, histvars>>

\* case fs.paths <- path, taken on a closed channel: the send panics
PushPanic ==
    /\ ppc = "push"
    /\ paths.closed
    /\ ppc' = "panic"
    /\ UNCHANGED sidevars
    /\ UNCHANGED <<tree, cfgvars, chanvars, countvars, group, ctx, timevars,
                   envvars, phase, walkErr, pos, workvars, cpc, histvars>>

\* case <-fs.ctx.Done(): return fs.ctx.Err()
PushCancelled ==
    /\ ppc = "push"
    /\ CtxDone(ctx)
    /\ ProducerReturn(CtxErr(ctx))
    /\ observed' = TRUE
    /\ UNCHANGED sidevars
    /\ UNCHANGED <<tree, cfgvars, results, countvars, timevars, envvars, phase,
                   walkErr, pos, workvars, cpc, calls, active, early>>

\* filepath.Walk has visited every entry and returns nil
WalkDone ==
    /\ ppc = "walk"
    /\ pos > Len(tree)
    /\ ProducerReturn(NoErr)
    /\ UNCHANGED sidevars
    /\ UNCHANGED <<tree, cfgvars, results, countvars, timevars, envvars, phase,
                   walkErr, pos, workvars, cpc, calls, active, early, observed>>

\* ------------------------------------------------------------------------
\* Workers: the function fs.worker(walkFn) returns
\* ------------------------------------------------------------------------
\* what the WalkFunc returns for the path of entry i: r is the path itself
\* or 0 for the empty string
WalkFn(i) ==
    [r |-> IF tree[i].out = "res" THEN i ELSE 0,
     err |-> IF tree[i].out = "err" THEN ErrTransform ELSE NoErr]

\* a worker that drops every result
SendableNever(r) == FALSE

\* a worker that sends r without looking at it
SendableAlways(r) == TRUE

\* if r != ""
Sendable(r) == r # 0

\* for path := range fs.paths: a path is received and walkFn(p) is called
Receive(w) ==
    /\ wpc[w] = "recv"
    /\ paths.buf # <<>>
    /\ paths' = [paths EXCEPT !.buf = Dequeue(@)]
    /\ wcur' = [wcur EXCEPT ![w] = Head(paths.buf)]
    /\ wpc' = [wpc EXCEPT ![w] = "call"]
    /\ calls' = [calls EXCEPT ![Head(paths.buf)] = @ + 1]
    /\ active' = [active EXCEPT ![w] = @ + 1]
    /\ UNCHANGED sidevars
    /\ UNCHANGED <<tree, cfgvars, results, countvars, group, ctx, timevars,
                   envvars, phase, walkErr, prodvars, wres, cpc, firstErr,
                   early, observed>>

\* the range loop ends on the closed and empty channel: return nil
WorkerDone(w) ==
    /\ wpc[w] = "recv"
    /\ paths.buf = <<>> /\ paths.closed
    /\ wpc' = [wpc EXCEPT ![w] = "done"]
    /\ TaskReturn(NoErr)
    /\ UNCHANGED sidevars
    /\ UNCHANGED <<tree, cfgvars, chanvars, countvars, timevars, envvars,
                   phase, walkErr, prodvars, wcur, wres, cpc, calls, active,
                   early, observed>>

\* the call walkFn(p) of a worker returns ret = (r, err)
TransformWith(w, ret) ==
    /\ wpc[w] = "call"
    /\ active' = [active EXCEPT ![w] = @ - 1]
    /\ IF ret.err # NoErr
       THEN /\ wpc' = [wpc EXCEPT ![w] = "done"]
            /\ TaskReturn(ret.err)
            /\ UNCHANGED wres
       ELSE /\ wres' = [wres EXCEPT ![w] = ret.r]
            /\ wpc' = [wpc EXCEPT ![w] = IF Sendable(ret.r) THEN "send" ELSE "recv"]
            /\ UNCHANGED <<group, ctx, firstErr>>
    /\ wcur' = [wcur EXCEPT ![w] = 0]
    /\ UNCHANGED <<tree, cfgvars, chanvars, countvars, timevars, envvars,
                   phase, walkErr, prodvars, cpc, calls, early, observed>>

\* walkFn(p) returns (r, err), for a WalkFunc the caller supplies
Transform(w) ==
    /\ TransformWith(w, WalkFn(wcur[w]))
    /\ UNCHANGED sidevars

\* case fs.results <- r
Send(w) ==
    /\ wpc[w] = "send"
    /\ ~results.closed
    /\ HasRoom(results.buf)
    /\ results' = [results EXCEPT !.buf = Append(@, wres[w])]
    /\ wpc' = [wpc EXCEPT ![w] = "recv"]
    /\ wres' = [wres EXCEPT ![w] = 0]
    /\ sent' = sent + 1
    /\ UNCHANGED <<prev, disk, fsop, walks, cnt>>
    /\ UNCHANGED <<tree, cfgvars, paths, countvars, group, ctx, timevars,
                   envvars, phase, walkErr, prodvars, wcur, cpc, histvars>>

\* case fs.results <- r, taken on a closed channel: the send panics
SendPanic(w) ==
    /\ wpc[w] = "send"
    /\ results.closed
    /\ wpc' = [wpc EXCEPT ![w] = "panic"]
    /\ UNCHANGED sidevars
    /\ UNCHANGED <<tree, cfgvars, chanvars, countvars, group, ctx, timevars,
                   envvars, phase, walkErr, prodvars, wcur, wres, cpc,
                   histvars>>

\* case <-fs.ctx.Done(): return fs.ctx.Err()
SendCancelled(w) ==
    /\ wpc[w] = "send"
    /\ CtxDone(ctx)
    /\ wpc' = [wpc EXCEPT ![w] = "done"]
    /\ wres' = [wres EXCEPT ![w] = 0]
    /\ TaskReturn(CtxErr(ctx))
    /\ observed' = TRUE
    /\ UNCHANGED sidevars
    /\ UNCHANGED <<tree, cfgvars, chanvars, countvars, timevars, envvars,
                   phase, walkErr, prodvars, wcur, cpc, calls, active,
                   early>>

\* ------------------------------------------------------------------------
\* The environment: the caller's deadline and the caller's cancel function
\* ------------------------------------------------------------------------
Traversing == phase = "running" /\ ppc \in {"walk", "push"}

\* the deadline of the caller's context passes
Deadline ==
    /\ ~timeUp
    /\ callerCtx.deadline \/ ctx.deadline
    /\ timeUp' = TRUE
    /\ callerCtx' = IF callerCtx.deadline /\ callerCtx.cause = "none"
                    THEN [callerCtx EXCEPT !.cause = "deadline"] ELSE callerCtx
    /\ ctx' = IF ctx.deadline /\ ctx.cause = "none"
              THEN [ctx EXCEPT !.cause = "deadline"] ELSE ctx
    /\ early' = (early \/ (Traversing /\ ctx.deadline /\ ctx.cause = "none"))
    /\ UNCHANGED sidevars
    /\ UNCHANGED <<tree, cfgvars, chanvars, countvars, group, timevars, phase,
                   walkErr, prodvars, workvars, cpc, calls, active, firstErr,
                   observed>>

\* the caller cancels the context it made
CallerCancel ==
    /\ callerCtx.cause = "none"
    /\ callerCtx' = [callerCtx EXCEPT !.cause = "caller"]
    /\ ctx' = IF ctx.orig /\ ctx.cause = "none"
              THEN [ctx EXCEPT !.cause = "caller"] ELSE ctx
    /\ early' = (early \/ (Traversing /\ ctx.orig /\ ctx.cause = "none"))
    /\ UNCHANGED sidevars
    /\ UNCHANGED <<tree, cfgvars, chanvars, countvars, group, timevars, timeUp,
                   phase, walkErr, prodvars, workvars, cpc, calls, active,
                   firstErr, observed>>

\* ------------------------------------------------------------------------
\* fs.Count(print, paths...) with DirSize.Update as WalkFunc
\* ------------------------------------------------------------------------
\* size.Update(path) on entry e, the path of index i: what it returns and
\* what it adds to size.Files and size.Bytes
Update(e, i) ==
    IF e.out = "err" THEN [r |-> 0, err |-> ErrStat, files |-> 0, bytes |-> 0]
    ELSE IF e.mode = "dir" THEN [r |-> 0, err |-> NoErr, files |-> 0, bytes |-> 0]
    ELSE IF e.size <= 0 THEN [r |-> 0, err |-> NoErr, files |-> 0, bytes |-> 0]
    ELSE [r |-> i, err |-> NoErr, files |-> 1, bytes |-> e.size]

\* a worker's call of size.Update returns
UpdateCall(w) ==
    /\ cnt.pc = "loop"
    /\ wpc[w] = "call"
    /\ LET u == Update(tree[wcur[w]], wcur[w]) IN
        /\ TransformWith(w, u)
        /\ cnt' = [cnt EXCEPT !.size.Files = @ + u.files,
                              !.size.Bytes = @ + u.bytes]
    /\ UNCHANGED <<prev, disk, fsop, sent, walks>>

\* fs.Walk(path, size.Update) is called for the path of the loop
CountWalk ==
    /\ cnt.pc = "loop"
    /\ Walk

\* Walk returned nil: sizes = append(sizes, size), fs.Reset(nil), and the
\* loop goes to the next path or Count returns (sizes, nil)
CountNext ==
    /\ cnt.pc = "loop"
    /\ phase = "returned" /\ walkErr = NoErr
    /\ LET more == cnt.i < Len(cnt.args)
           next == IF more THEN cnt.trees[cnt.args[cnt.i + 1]] ELSE tree
       IN /\ ResetEngine("nil", next)
          /\ tree' = next
          /\ cnt' = [cnt EXCEPT
                       !.sizes = Append(@, cnt.size),
                       !.i = IF more THEN @ + 1 ELSE @,
                       !.size = IF more THEN NewDirSize(cnt.args[cnt.i + 1])
                                ELSE @,
                       !.pc = IF more THEN "loop" ELSE "done"]
    /\ UNCHANGED <<cfgvars, disk, fsop, envvars>>

\* Walk returned an error: return nil, err
CountFail ==
    /\ cnt.pc = "loop"
    /\ phase = "returned" /\ walkErr # NoErr
    /\ cnt' = [cnt EXCEPT !.pc = "failed", !.sizes = <<>>, !.err = walkErr]
    /\ UNCHANGED <<tree, cfgvars, walkvars, prev, disk, fsop, sent, walks>>

\* ------------------------------------------------------------------------
\* Calls of the helpers of fsutil.go
\* ------------------------------------------------------------------------
\* err := Mkdir(path)
MkdirCall(p) ==
    /\ LET m == Mkdir(disk, p) IN
        /\ disk' = m.disk
        /\ fsop' = [op |-> "Mkdir", path |-> p, before |-> disk,
                    err |-> m.err, ret |-> FALSE]
    /\ UNCHANGED <<tree, cfgvars, walkvars, prev, sent, walks, cnt>>

\* ok := PathExists(path)
PathExistsCall(p) ==
    /\ fsop' = [op |-> "PathExists", path |-> p, before |-> disk,
                err |-> NoErr, ret |-> PathExists(disk, p)]
    /\ UNCHANGED <<tree, cfgvars, walkvars, prev, sent, walks, cnt, disk>>

\* ------------------------------------------------------------------------
\* Specification
\* ------------------------------------------------------------------------
\* one walk of an engine that was just initialised or reset
Next ==
    \/ Walk
    \/ Collect
    \/ WalkReturn
    \/ Closer
    \/ filterPaths
    \/ Push
    \/ PushCancelled
    \/ WalkDone
    \/ \E w \in WorkerIds : Receive(w)
    \/ \E w \in WorkerIds : WorkerDone(w)
    \/ \E w \in WorkerIds : Transform(w)
    \/ \E w \in WorkerIds : Send(w)
    \/ \E w \in WorkerIds : SendCancelled(w)
    \/ Deadline

\* the life of an engine: walks with a Reset between them, by a caller
\* that also holds the cancel function of its context
NextLife ==
    \/ Next
    \/ \E arg \in ResetArgs : Reset(arg)
    \/ CallerCancel

Spec == Init /\ [][Next]_vars
SpecLife == InitSmall /\ [][NextLife]_vars
\* the life of an engine whose caller may call Walk again without Reset
NextReuse ==
    \/ Next
    \/ \E arg \in ResetArgs : Reset(arg)
    \/ WalkAgain
    \/ PushPanic
    \/ \E w \in WorkerIds : SendPanic(w)

SpecReuse == InitSmall /\ [][NextReuse]_vars

\* one call of fs.Count on an engine that was just initialised
InitCount ==
    /\ \E a \in CountArgs, ts \in CountTrees :
        /\ InitWalker({ts[a[1]]},
                      {[Workers |-> MaxWorkers, SkipHidden |-> TRUE,
                        SkipDirs |-> TRUE, Match |-> PatAll]}, {FALSE})
        /\ cnt = [pc |-> "loop", args |-> a, trees |-> ts, i |-> 1,
                  size |-> NewDirSize(a[1]), sizes |-> <<>>, err |-> NoErr]
    /\ disk = EmptyDisk
    /\ fsop = NoOp

NextCount ==
    \/ CountWalk
    \/ Collect
    \/ WalkReturn
    \/ Closer
    \/ filterPaths
    \/ Push
    \/ PushCancelled
    \/ WalkDone
    \/ \E w \in WorkerIds : Receive(w)
    \/ \E w \in WorkerIds : WorkerDone(w)
    \/ \E w \in WorkerIds : UpdateCall(w)
    \/ \E w \in WorkerIds : Send(w)
    \/ \E w \in WorkerIds : SendCancelled(w)
    \/ CountNext
    \/ CountFail

SpecCount == InitCount /\ [][NextCount]_vars

\* one walk with one worker, over every filter configuration
SpecFilter == InitFilter /\ [][Next]_vars

\* the helpers of fsutil.go, called one after the other on any disk
InitDisk ==
    /\ InitWalker({<<Entry(FALSE, "file", NameA, "res")>>},
                  {[Workers |-> 1, SkipHidden |-> TRUE, SkipDirs |-> TRUE,
                    Match |-> PatAll]}, {FALSE})
    /\ disk \in Disks
    /\ fsop = NoOp
    /\ cnt = NoCount

NextDisk ==
    \/ \E p \in DiskPaths : MkdirCall(p)
    \/ \E p \in DiskPaths : PathExistsCall(p)

SpecDisk == InitDisk /\ [][NextDisk]_vars

\* Every goroutine of a walk that can take a step eventually takes one:
\* the Go scheduler runs every runnable goroutine and a WalkFunc call is
\* finite.  Nothing is assumed of the caller's next call, of the deadline
\* or of the caller's cancel function.
ProducerStep == filterPaths \/ Push \/ PushCancelled \/ WalkDone
WorkerStep(w) ==
    Receive(w) \/ WorkerDone(w) \/ Transform(w) \/ Send(w) \/ SendCancelled(w)
CollectorStep == Collect \/ WalkReturn

Fairness ==
    /\ WF_vars(ProducerStep)
    /\ \A w \in WorkerIds : WF_vars(WorkerStep(w))
    /\ WF_vars(Closer)
    /\ WF_vars(CollectorStep)

FairSpec == InitSmall /\ [][Next]_vars /\ Fairness


\* ------------------------------------------------------------------------
\* Vocabulary of the properties
\* ------------------------------------------------------------------------
Indices == 1..Len(tree)
Decision(i) == FilterResult(tree[i], SkipHidden, SkipDirs, Match)
EligibleSet == { i \in Indices : Decision(i) = "eligible" }
\* the traversal itself does not fail: no listing error, no bad pattern
NoFailure == \A i \in Indices : Decision(i) \in {"skip", "eligible"}
ErrorSet == { i \in EligibleSet : WalkFn(i).err # NoErr }
NonEmptySet == { i \in EligibleSet : WalkFn(i).err = NoErr /\ WalkFn(i).r # 0 }
Returned == phase = "returned"
\* the context of the walk was cancelled from outside the group
External == ctx.cause \in {"deadline", "caller"}
InProgress == { w \in WorkerIds : active[w] > 0 }

\* C1: with at least one worker, no cancellation from outside, a traversal
\* that does not fail and a WalkFunc that returns (path, nil) for every
\* path, Walk returns nil and nResults = nPaths = the number of eligible
\* entries of the tree.
C1_AllCounted ==
    (Returned /\ Workers >= 1 /\ ~External /\ NoFailure
        /\ NonEmptySet = EligibleSet)
    => (walkErr = NoErr /\ nResults = nPaths
        /\ nPaths = Cardinality(EligibleSet))

C1_Witness ==
    /\ Returned /\ Workers = MaxWorkers /\ ~External /\ NoFailure
    /\ NonEmptySet = EligibleSet
    /\ Cardinality(EligibleSet) >= 2
    /\ EligibleSet # Indices
    /\ nResults = Cardinality(EligibleSet)

\* C2: when the WalkFunc fails on exactly one eligible path, the traversal
\* does not fail and nothing cancels the context from outside, Walk returns
\* that error.
C2_TransformErrorReturned ==
    (Returned /\ Workers >= 1 /\ ~External /\ NoFailure
        /\ Cardinality(ErrorSet) = 1)
    => walkErr = ErrTransform

C2_Witness ==
    /\ Returned /\ Workers = MaxWorkers /\ ~External /\ NoFailure
    /\ Cardinality(ErrorSet) = 1
    /\ Cardinality(EligibleSet) >= 2
    /\ observed
    /\ walkErr = ErrTransform

\* C3: a worker has at most one WalkFunc invocation in progress and at
\* most fs.Workers invocations are in progress at any time.
C3_BoundedParallelism ==
    /\ \A w \in WorkerIds : active[w] <= 1
    /\ Cardinality(InProgress) <= Workers

C3_Witness ==
    /\ Workers = MaxWorkers
    /\ Cardinality(InProgress) = Workers
    /\ Cardinality(EligibleSet) > Workers

\* C4: no path is handed to the WalkFunc twice, no entry that is not
\* eligible is handed to it, and when Walk returns nil with at least one
\* worker every eligible path was handed to it exactly once.
C4_ExactlyOnce ==
    /\ \A i \in Indices : calls[i] <= 1
    /\ \A i \in Indices \ EligibleSet : calls[i] = 0
    /\ (Returned /\ walkErr = NoErr /\ Workers >= 1)
        => \A i \in EligibleSet : calls[i] = 1

C4_Witness ==
    /\ Returned /\ walkErr = NoErr /\ Workers = MaxWorkers
    /\ Cardinality(EligibleSet) = MaxEntries
    /\ \A i \in EligibleSet : calls[i] = 1

\* C5: with at least one worker and every goroutine scheduled fairly, a
\* walk that has started eventually returns, whatever the tree, the errors
\* and the cancellations; and when Walk has returned the producer, every
\* worker and the closing goroutine have terminated.
C5_WalkTerminates ==
    /\ [](phase = "running" /\ Workers >= 1 => <>(phase = "returned"))
    /\ [](Returned =>
            /\ ppc = "done"
            /\ \A w \in Pool(Workers) : wpc[w] = "done"
            /\ cpc = "done"
            /\ group.wg = 0)

C5_Witness ==
    /\ Returned /\ Workers = MaxWorkers
    /\ walkErr = DeadlineExceeded
    /\ nPaths = MaxSmallEntries
    /\ ppc = "done" /\ \A w \in Pool(Workers) : wpc[w] = "done"

CompleteRun ==
    /\ pos > Len(tree)
    /\ nPaths = Cardinality(EligibleSet)
    /\ Workers >= 1 =>
        /\ \A i \in EligibleSet : calls[i] = 1
        /\ nResults = Cardinality(NonEmptySet)

C7_FirstErrorWins ==
    /\ group.err \in CtxErrors => (External /\ group.err = CtxErr(ctx))
    /\ Returned =>
        /\ walkErr = firstErr
        /\ walkErr \in CtxErrors => (External /\ walkErr = CtxErr(ctx))

C7_Witness ==
    /\ Returned /\ Workers >= 1
    /\ walkErr = ErrTransform
    /\ observed
    /\ ctx.cause = "group"

\* C8: nResults never exceeds nPaths.
C8_ResultsAtMostPaths ==
    nResults <= nPaths

C8_Witness ==
    /\ Returned /\ walkErr # NoErr
    /\ nResults >= 1
    /\ nResults < nPaths

\* C9: the empty string is never in the results channel, and when Walk
\* returns nil with at least one worker nResults is the number of eligible
\* paths for which the WalkFunc returned a non-empty string.
C9_EmptyNotCounted ==
    /\ \A k \in 1..Len(results.buf) : results.buf[k] # 0
    /\ (Returned /\ walkErr = NoErr /\ Workers >= 1)
        => nResults = Cardinality(NonEmptySet)

C9_Witness ==
    /\ Returned /\ walkErr = NoErr /\ Workers >= 1
    /\ NonEmptySet # {}
    /\ EligibleSet \ NonEmptySet # {}
    /\ \A i \in EligibleSet : calls[i] = 1

\* what every Reset leaves, whatever its argument
ResetFresh(arg) ==
    /\ paths' = EmptyChan /\ results' = EmptyChan
    /\ nPaths' = 0 /\ nResults' = 0
    /\ started' = "zero" /\ duration' = "zero"
    /\ group'.err = NoErr /\ group'.wg = 0
    /\ Workers' = Workers /\ SkipHidden' = SkipHidden
    /\ SkipDirs' = SkipDirs /\ Match' = Match
    /\ arg = "nil" => ctx'.deadline = ctx.deadline

\* C10 as claimed: Reset leaves empty open channels, zero counters, zero
\* start time and duration, an error group that is not cancelled, the
\* configuration unchanged and, without a new context, the old deadline.
C10_Original ==
    [][\A arg \in ResetArgs :
        Reset(arg) => (ResetFresh(arg) /\ ~CtxDone(ctx'))]_vars

\* the context Reset builds the group on is already done
ParentDone(arg) ==
    \/ arg = "nil" /\ ctx.deadline /\ timeUp
    \/ arg = "caller" /\ callerCtx.cause # "none"

\* C10 as amended: as claimed, except that the context of the new group is
\* cancelled exactly when the context it is built on is already done (the
\* kept deadline has passed, or the context passed in is done); the
\* cancellation of the previous group is never carried over.
C10_ResetFresh ==
    [][\A arg \in ResetArgs :
        Reset(arg) =>
            /\ ResetFresh(arg)
            /\ CtxDone(ctx') <=> ParentDone(arg)
            /\ ctx'.cause # "group"]_vars

C10_Witness ==
    /\ phase = "idle"
    /\ ~ctx.orig /\ ctx.deadline
    /\ timeUp /\ ctx.cause = "deadline"
    /\ group.err = NoErr
    /\ Workers = MaxWorkers

\* ---------------------------------------------------------------- C11
\* C11 as claimed: Reset(nil) resets the walker with the original context,
\* so a walk in flight is cancelled as soon as the context given to Init
\* is done, whether by its deadline or by the caller's cancel.
C11_Original ==
    (phase = "running" /\ callerCtx.cause # "none") => CtxDone(ctx)

\* ---------------------------------------------------------------- C12
\* what the claim counts: a regular file, not hidden when SkipHidden is
\* set, whose base name matches the pattern
Counted(e) ==
    /\ ~e.err
    /\ e.mode = "file"
    /\ SkipHidden => (e.name[1] # "." /\ e.name[1] # "~")
    /\ GlobMatch(Match, e.name) = "match"

C13_SameCounts ==
    /\ (Returned /\ walkErr = NoErr /\ prev.set) =>
        (nPaths = prev.nPaths /\ nResults = prev.nResults)
    /\ (phase = "idle" /\ prev.set) =>
        /\ paths = [buf |-> <<>>, closed |-> FALSE]
        /\ results = [buf |-> <<>>, closed |-> FALSE]
        /\ nPaths = 0 /\ nResults = 0
        /\ group.err = NoErr
        /\ ctx.cause # "group"

C13_Witness ==
    /\ Returned /\ walkErr = NoErr
    /\ prev.set
    /\ prev.nPaths = MaxSmallEntries /\ nPaths = MaxSmallEntries
    /\ prev.nResults = 1 /\ nResults = 1
    /\ Workers = MaxWorkers

\* ---------------------------------------------------------------- C14
\* the eligible paths for which the WalkFunc would return a non-empty
\* string
WouldSend == { i \in EligibleSet : WalkFn(i).r # 0 }

\* C14: when Walk returns a non-nil error, nPaths is at most the number of
\* eligible files and nResults at most the number of eligible files for
\* which the WalkFunc returns a non-empty result; the return itself leaves
\* both counters as the walk left them.
C14_LowerBounds ==
    /\ [](Returned /\ walkErr # NoErr =>
            /\ nPaths <= Cardinality(EligibleSet)
            /\ nResults <= Cardinality(WouldSend))
    /\ [][phase = "running" /\ phase' = "returned" =>
            (nPaths' = nPaths /\ nResults' = nResults)]_vars

C14_Witness ==
    /\ Returned /\ walkErr # NoErr
    /\ nPaths >= 1 /\ nPaths < Cardinality(EligibleSet)
    /\ nResults >= 1 /\ nResults < Cardinality(WouldSend)

\* ---------------------------------------------------------------- C15
Exists(d, p) == d[p] # "none"
\* p and every parent of p is a directory
MadeWithParents(d, p) == \A q \in Prefixes(p) : d[q] = "dir"
\* a regular file stands where a parent directory of p would be
Blocked(d, p) == \E q \in Ancestors(p) : d[q] = "file"

C16_Original ==
    [][firstErr = ErrTransform =>
        /\ Len(paths'.buf) <= Len(paths.buf)
        /\ \A w \in WorkerIds : ~(wpc[w] = "recv" /\ wpc'[w] = "call")]_vars

\* ---------------------------------------------------------------- C17
\* a task that stands at a channel operation
BlockedProducer == phase = "running" /\ ppc = "push"
BlockedWorkers == { w \in WorkerIds : wpc[w] \in {"recv", "send"} }

LiveWorkers == { w \in WorkerIds : wpc[w] \in {"recv", "call", "send"} }
ProducerLive == ppc \in {"walk", "push"}

\* C18: fs.results is closed once, by a close on an open channel, and only
\* after the producer and every worker have returned, so no worker stands
\* before a send on the closed channel; the collecting loop ends only on
\* the closed and empty channel, so that at the return of Walk every result
\* that was sent has been counted.
C18_ResultsClosedOnce ==
    /\ [](results.closed => (~ProducerLive /\ LiveWorkers = {}))
    /\ [](Returned =>
            /\ results.closed /\ results.buf = <<>>
            /\ nResults = sent)
    /\ [][(cpc = "wait" /\ cpc' = "done") => ~results.closed]_vars
    /\ [][results'.closed # results.closed => (cpc = "wait" /\ cpc' = "done")]_vars
    /\ [][(phase = "running" /\ phase' = "returned") =>
            (results.closed /\ results.buf = <<>>)]_vars

C18_Witness ==
    /\ Returned /\ walkErr = ErrTransform
    /\ results.closed
    /\ sent = MaxEntries - 1 /\ nResults = sent
    /\ Workers = MaxWorkers

\* ---------------------------------------------------------------- C19
\* C19: within one walk fs.paths is closed once, by a close on the open
\* channel that the producer makes when it returns, whether it returns nil
\* or an error; nothing is pushed after the close; a worker returns nil
\* only on the closed and empty channel, when every pushed path has been
\* received.
C19_PathsClosedOnce ==
    /\ [](paths.closed <=> ppc = "done")
    /\ [][paths'.closed # paths.closed =>
            (~paths.closed /\ ProducerLive /\ ppc' = "done")]_vars
    /\ [][paths.closed => Len(paths'.buf) <= Len(paths.buf)]_vars
    /\ [][\A w \in WorkerIds : (wpc[w] = "recv" /\ wpc'[w] = "done") =>
            (paths.closed /\ paths.buf = <<>>)]_vars

C19_Witness ==
    /\ Returned /\ walkErr = ErrList
    /\ paths.closed /\ paths.buf = <<>>
    /\ nPaths = MaxEntries - 1
    /\ \A w \in WorkerIds : wpc[w] = "done"
    /\ \A i \in 1..(MaxEntries - 1) : calls[i] = 1

\* ---------------------------------------------------------------- C20
RECURSIVE SumCalls(_)
SumCalls(n) == IF n = 0 THEN 0 ELSE calls[n] + SumCalls(n - 1)
\* paths the producer has counted and no worker has received
Unreceived == nPaths - SumCalls(Len(tree))

\* C20: neither channel ever holds more than its capacity; the paths that
\* were counted and not yet received are at most the capacity plus the one
\* the producer holds, and a producer that holds a path before the full
\* channel neither publishes nor counts until a worker receives; a worker
\* that holds a non-empty result before the full results channel does not
\* send until the collecting loop receives, which it can.
C20_Bounded ==
    /\ Len(paths.buf) <= DefaultBuffer
    /\ Len(results.buf) <= DefaultBuffer
    /\ Unreceived <= DefaultBuffer + 1
    /\ (ppc = "push" /\ Len(paths.buf) = DefaultBuffer) =>
        (~ENABLED Push /\ ~ENABLED filterPaths /\ ~ENABLED WalkDone)
    /\ \A w \in WorkerIds :
        (wpc[w] = "send" /\ Len(results.buf) = DefaultBuffer) =>
            (~ENABLED Send(w) /\ ~ENABLED Receive(w) /\ ENABLED Collect)

C20_Witness ==
    /\ ppc = "push"
    /\ Len(paths.buf) = DefaultBuffer
    /\ Unreceived = DefaultBuffer + 1
    /\ Len(results.buf) = DefaultBuffer
    /\ ctx.cause = "none"

\* ---------------------------------------------------------------- C21
\* the entries that have passed the filter in the producer: the eligible
\* ones it has left behind and the one it holds at, or returned from, the
\* select
Passed ==
    { i \in EligibleSet :
        \/ i < pos
        \/ i = pos /\ ppc \in {"push", "done"} }
\* the results the collecting loop has received
Collected == sent - Len(results.buf)

\* C21: in every state nPaths is the number of entries that have passed
\* the filter and nResults the number of results the collecting loop has
\* received; neither counter ever decreases during a walk; nPaths is
\* written by the producer only, when an entry passes the filter and
\* before its push, and nResults by the collecting loop only, so that no
\* two tasks write the same counter.
C21_NoLostIncrement ==
    /\ [](nPaths = Cardinality(Passed) /\ nResults = Collected)
    /\ [][nPaths' >= nPaths /\ nResults' >= nResults]_vars
    /\ [][nPaths' # nPaths =>
            (ppc = "walk" /\ ppc' = "push" /\ paths' = paths)]_vars
    /\ [][nResults' # nResults =>
            (Len(results'.buf) = Len(results.buf) - 1 /\ UNCHANGED workvars
             /\ UNCHANGED prodvars)]_vars

C21_Witness ==
    /\ phase = "running"
    /\ nPaths = MaxEntries /\ ppc = "push"
    /\ nResults = 1 /\ Len(results.buf) = DefaultBuffer
    /\ Workers = MaxWorkers

\* ---------------------------------------------------------------- C22
\* a goroutine of the walk has panicked
Panicked ==
    \/ ppc = "panic"
    \/ cpc = "panic"
    \/ \E w \in WorkerIds : wpc[w] = "panic"

\* C22: a Walk that is called again without a Reset starts on closed
\* channels and a cancelled context; it never returns, because its
\* producer can only end in the panic of a send on, or of the close of,
\* the closed path channel, and its counters go on from those of the first
\* walk; a walk on an initialised or reset engine never panics.
C22_WalkOnlyFromIdle ==
    /\ [][walks' = 2 =>
            (paths'.closed /\ results'.closed /\ CtxDone(ctx'))]_vars
    /\ [](walks >= 2 => (phase = "running" /\ ppc \in {"walk", "push", "panic"}))
    /\ [][(walks = 1 /\ walks' = 2) =>
            (nPaths' = nPaths /\ nResults' = nResults)]_vars
    /\ [](walks <= 1 => ~Panicked)

C22_Witness ==
    /\ walks = 2
    /\ ppc = "panic"
    /\ \E w \in WorkerIds : wpc[w] = "panic"
    /\ nPaths > Cardinality(EligibleSet)

\* ---------------------------------------------------------------- C23
HiddenName(name) == name[1] = "." \/ name[1] = "~"

\* C23 as claimed: with SkipHidden set, the WalkFunc is called on no file
\* whose base name begins with '.' or '~' and on no file that lies below a
\* directory whose name begins with '.' or '~'.
C23_Original ==
    SkipHidden =>
        \A i \in Indices :
            (HiddenName(tree[i].name) \/ tree[i].under = "hidden")
                => calls[i] = 0

\* ---------------------------------------------------------------- C24
\* the producer has returned the error of the entry it stands at: the
\* error filepath.Walk handed in or the one of filepath.Match
ProducerErrors == {ErrList, ErrBadPattern}
ProducerFailed ==
    /\ ppc = "done"
    /\ pos <= Len(tree)
    /\ Decision(pos) \in ProducerErrors

\* what holds of every error on the producer's side: the traversal stops
\* at that entry, fs.paths is closed, and when Walk has returned every
\* worker has returned
StopsAndCloses ==
    ProducerFailed =>
        /\ paths.closed
        /\ ~ENABLED ProducerStep
        /\ \A i \in Indices : i >= pos => calls[i] = 0
        /\ Returned => \A w \in Pool(Workers) : wpc[w] = "done"

\* C24 as claimed: an error on the producer's side stops the traversal at
\* that entry, closes fs.paths so that the workers return, and is the
\* error Walk returns.
C24_Original ==
    /\ StopsAndCloses
    /\ (Returned /\ ProducerFailed) => walkErr = Decision(pos)

\* C24 as amended: the same, except that Walk returns the first error a
\* task of the group returned, which is the producer's error unless a
\* worker returned the error of its WalkFunc or of the cancelled context
\* before; a malformed pattern is found before anything is pushed and is
\* always the error Walk returns.
C24_ProducerError ==
    /\ StopsAndCloses
    /\ (Returned /\ ProducerFailed) =>
        /\ walkErr = firstErr
        /\ walkErr \in {Decision(pos), ErrTransform} \cup CtxErrors
        /\ Decision(pos) = ErrBadPattern =>
            (walkErr = ErrBadPattern /\ nPaths = 0)
        /\ ErrorSet = {} /\ ~External => walkErr = Decision(pos)

C24_Witness ==
    /\ Returned /\ ProducerFailed
    /\ pos = 2 /\ Decision(pos) = ErrList
    /\ walkErr = ErrList
    /\ nPaths = 1 /\ calls[1] = 1
    /\ ctx.cause = "group"

\* ---------------------------------------------------------------- C25
RECURSIVE SumSizes(_, _)
SumSizes(t, n) == IF n = 0 THEN 0 ELSE t[n].size + SumSizes(t, n - 1)

\* C25 as claimed: when Count returns without error it returns one DirSize
\* per path, in the order of the paths, with Files the number of eligible
\* files under the path, a file of zero bytes included, and Bytes the sum
\* of their sizes; every walk of the loop starts on a fresh engine.
C25_Original ==
    /\ cnt.pc = "done" =>
        /\ Len(cnt.sizes) = Len(cnt.args)
        /\ \A j \in 1..Len(cnt.args) :
            LET t == cnt.trees[cnt.args[j]] IN
            /\ cnt.sizes[j].Path = cnt.args[j]
            /\ cnt.sizes[j].Files = Len(t)
            /\ cnt.sizes[j].Bytes = SumSizes(t, Len(t))
    /\ (cnt.pc = "loop" /\ phase = "idle") =>
        (nPaths = 0 /\ nResults = 0 /\ paths = EmptyChan /\ results = EmptyChan)

\* ---------------------------------------------------------------- C26
\* C26: with at least one worker a nil return of Walk certifies a complete
\* run, also when the deadline passed or the caller cancelled during the
\* walk: the producer visited every entry without an error, every eligible
\* path was handed to the WalkFunc exactly once and none of the calls
\* failed, every non-empty result was sent and counted, and nPaths and
\* nResults are the numbers of eligible paths and of non-empty results.
C26_NilCertifies ==
    (Returned /\ Workers >= 1 /\ walkErr = NoErr) =>
        /\ pos > Len(tree)
        /\ NoFailure
        /\ \A i \in EligibleSet : calls[i] = 1 /\ WalkFn(i).err = NoErr
        /\ \A i \in Indices \ EligibleSet : calls[i] = 0
        /\ sent = Cardinality(NonEmptySet)
        /\ nResults = sent
        /\ nPaths = Cardinality(EligibleSet)

C26_Witness ==
    /\ Returned /\ Workers >= 1 /\ walkErr = NoErr
    /\ early /\ External
    /\ nResults >= 1
    /\ nPaths > nResults

\* ---------------------------------------------------------------- C27
\* a walk without workers and without a deadline
NoWorkers == Workers = 0 /\ ~callerCtx.deadline
\* the entries filepath.Walk hands to filterPaths: all of them up to and
\* including the first one filterPaths returns an error for
Visited ==
    { i \in Indices : \A j \in 1..(i - 1) : Decision(j) \notin ProducerErrors }
EligibleVisited == EligibleSet \cap Visited
NoCalls == \A i \in Indices : calls[i] = 0
\* the producer stands at its send and fs.paths is full
ProducerStuck ==
    /\ phase = "running"
    /\ ppc = "push"
    /\ Len(paths.buf) = DefaultBuffer

\* C27 as claimed: without workers and without a deadline, Walk returns
\* nil with nResults = 0 and no call of the WalkFunc when the tree has at
\* most DefaultBuffer eligible paths, and never returns when it has more.
C27_Original ==
    /\ [](NoWorkers /\ Cardinality(EligibleSet) <= DefaultBuffer /\ Returned
            => walkErr = NoErr /\ nResults = 0 /\ NoCalls)
    /\ (NoWorkers /\ Cardinality(EligibleSet) <= DefaultBuffer
            /\ phase = "running") ~> Returned
    /\ [](NoWorkers /\ Cardinality(EligibleSet) > DefaultBuffer => ~Returned)

\* C27 as amended: without workers and without a deadline the WalkFunc is
\* never called and nResults stays 0. When the producer meets at most
\* DefaultBuffer eligible paths before the traversal ends or fails, Walk
\* returns, with nil after a whole traversal and with the error of the
\* traversal otherwise; when it meets more, it stands forever at its send
\* on the full channel and Walk never returns.
C27_NoWorkers ==
    /\ [](NoWorkers => nResults = 0 /\ NoCalls)
    /\ [](NoWorkers /\ Returned =>
            /\ Cardinality(EligibleVisited) <= DefaultBuffer
            /\ NoFailure => walkErr = NoErr
            /\ ~NoFailure => walkErr \in ProducerErrors)
    /\ (NoWorkers /\ Cardinality(EligibleVisited) <= DefaultBuffer
            /\ phase = "running") ~> Returned
    /\ (NoWorkers /\ Cardinality(EligibleVisited) > DefaultBuffer
            /\ phase = "running") ~> [](ProducerStuck /\ ~ENABLED Next)

C27_Witness ==
    /\ NoWorkers
    /\ ProducerStuck
    /\ nPaths = DefaultBuffer + 1
    /\ ~ENABLED Next

====
